---- MODULE Spec2Model ----
(***************************************************************************)
(* State-machine model of modelo_final.ipynb: a notebook that grid-searches *)
(* three regressors, scores them on a held-out split, builds a voting and  *)
(* a stacking ensemble from the winners, and picks the entry of minimal    *)
(* RMSE.  The notebook's globals are the variables; each statement that    *)
(* calls the library or writes a global is one action.                     *)
(*                                                                         *)
(* Numbers.  The metrics are numpy float64 values.  They are modelled by a *)
(* binary floating-point format of the same kind (round to nearest, ties   *)
(* to even, gradual underflow) scaled down to MantBits significant bits    *)
(* and a smallest positive value of 2^-FracBits.  A value is held as the   *)
(* integer count of that smallest unit.                                    *)
(***************************************************************************)
EXTENDS Integers, Sequences, FiniteSets, TLC

\* ------------------------------------------------------------------ bounds
\* Significant bits of the scaled-down floating-point format.
MantBits == 3
\* The smallest positive value of the format is 2^-FracBits.
FracBits == 2
\* Largest target / prediction value drawn, in units of 2^-FracBits.
MaxVal == 3
\* Largest size of the test split drawn for the evaluation functions.
MaxTest == 2

\* ---------------------------------------------------------------- numbers
NoValue == 0 - 1

Values == 0..MaxVal

RoundNearestEven(num, den) ==
    LET q == num \div den
        r == num % den
    IN  IF 2 * r < den THEN q
        ELSE IF 2 * r > den THEN q + 1
        ELSE IF q % 2 = 0 THEN q ELSE q + 1

RECURSIVE ExponentOf(_, _, _)
ExponentOf(num, den, e) ==
    IF num \div (den * 2^e) < 2^MantBits THEN e
    ELSE ExponentOf(num, den, e + 1)

\* The float nearest to the non-negative rational num/den (in units).
Fl(num, den) ==
    LET e == ExponentOf(num, den, 0)
    IN  2^e * RoundNearestEven(num, den * 2^e)

FlExact(num, den) == Fl(num, den) * den = num

Abs(x) == IF x < 0 THEN 0 - x ELSE x

ISqrt(x) == CHOOSE k \in 0..x : k * k <= x /\ (k + 1) * (k + 1) > x

\* np.sqrt: the correctly rounded square root of the float a.
FlSqrt(a) ==
    LET x  == a * 2^FracBits
        r  == ISqrt(x)
        e  == ExponentOf(r, 1, 0)
        s  == 2^e
        k  == r \div s
        md == (2 * k + 1) * s
    IN  IF 4 * x < md * md THEN k * s
        ELSE IF 4 * x > md * md THEN (k + 1) * s
        ELSE IF k % 2 = 0 THEN k * s ELSE (k + 1) * s

FlSqrtExact(a) == FlSqrt(a) * FlSqrt(a) = a * 2^FracBits

\* |y_pred - y_true| element-wise.
AbsErrors(yt, yp) == [i \in 1..Len(yt) |-> Fl(Abs(yp[i] - yt[i]), 1)]

\* (y_true - y_pred) ** 2 element-wise.
SqErrors(yt, yp) ==
    [i \in 1..Len(yt) |-> Fl(AbsErrors(yt, yp)[i] * AbsErrors(yt, yp)[i], 2^FracBits)]

\* np.add.reduce over a short vector: left to right, rounding each partial sum.
RECURSIVE FlSum(_, _)
FlSum(v, n) == IF n = 0 THEN 0 ELSE Fl(FlSum(v, n - 1) + v[n], 1)

\* np.average(v): the rounded sum divided by the length.
FlMean(v) == Fl(FlSum(v, Len(v)), Len(v))

MeanAbsoluteError(yt, yp) == FlMean(AbsErrors(yt, yp))

MeanSquaredError(yt, yp) == FlMean(SqErrors(yt, yp))

RmseNoRoot(yt, yp) == MeanSquaredError(yt, yp)
Rmse(yt, yp) == FlSqrt(MeanSquaredError(yt, yp))

\* ------------------------------------------------------------ the notebook
\* A Python dict is held as the sequence of its items in insertion order.
Keys(d) == [i \in 1..Len(d) |-> d[i].name]

HasKey(d, k) == \E i \in 1..Len(d) : d[i].name = k

IndexOf(d, k) == CHOOSE i \in 1..Len(d) : d[i].name = k

Get(d, k) == d[IndexOf(d, k)]

PutReset(d, item) == <<item>>
\* d[k] = item: a new key is appended, an existing key keeps its place.
Put(d, item) ==
    IF HasKey(d, item.name)
    THEN [d EXCEPT ![IndexOf(d, item.name)] = item]
    ELSE Append(d, item)

DT == "Decision Tree"
RF == "Random Forest"
XGB == "XGBRegressor"
VOTING == "Voting Regressor"
STACKING == "Stacking Regressor"

\* models: the three estimators, built with their default arguments, so
\* random_state is None (written NoValue) for each.
models ==
    << [name |-> DT,  cls |-> "DecisionTreeRegressor", random_state |-> NoValue],
       [name |-> RF,  cls |-> "RandomForestRegressor", random_state |-> NoValue],
       [name |-> XGB, cls |-> "XGBRegressor",          random_state |-> NoValue] >>

BaseNames == {models[i].name : i \in 1..Len(models)}
EnsembleNames == {VOTING, STACKING}
AllNames == BaseNames \cup EnsembleNames

\* param_grids.  max_depth None is written 0; learning rates are in hundredths.
param_grids ==
    (DT  :> [max_depth |-> <<5, 10, 20, 0>>, min_samples_split |-> <<2, 5, 10>>]) @@
    (RF  :> [n_estimators |-> <<100, 200, 300>>, max_depth |-> <<5, 10, 0>>]) @@
    (XGB :> [n_estimators |-> <<100, 300, 500>>, learning_rate |-> <<1, 5, 10>>,
             max_depth |-> <<3, 5, 7>>])

\* ParameterGrid iterates the keys in sorted order, the last one fastest.
SortedKeys(grid) ==
    IF DOMAIN grid = {"max_depth", "min_samples_split"}
    THEN <<"max_depth", "min_samples_split">>
    ELSE IF DOMAIN grid = {"max_depth", "n_estimators"}
    THEN <<"max_depth", "n_estimators">>
    ELSE <<"learning_rate", "max_depth", "n_estimators">>

RECURSIVE Stride(_, _, _)
Stride(grid, keys, p) ==
    IF p >= Len(keys) THEN 1
    ELSE Len(grid[keys[p + 1]]) * Stride(grid, keys, p + 1)

NumCandidates(grid) ==
    LET keys == SortedKeys(grid) IN Len(grid[keys[1]]) * Stride(grid, keys, 1)

\* The c-th combination of the grid (c counted from 1).
Candidate(grid, c) ==
    LET keys == SortedKeys(grid)
        pos(k) == CHOOSE p \in 1..Len(keys) : keys[p] = k
    IN  [k \in DOMAIN grid |->
            grid[k][(((c - 1) \div Stride(grid, keys, pos(k))) % Len(grid[k])) + 1]]

IsCandidate(grid, params) ==
    /\ DOMAIN params = DOMAIN grid
    /\ \A k \in DOMAIN grid : \E j \in 1..Len(grid[k]) : grid[k][j] = params[k]

\* cv=5 of GridSearchCV and of StackingRegressor.
CvFolds == 5

\* Cross-validated scores are the library's business; the search is run on
\* these tables of per-fold scores (negative mean squared errors).
CvShapes == {"flat", "last", "spike"}

SplitScores(shape, n) ==
    [c \in 1..n |-> [f \in 1..CvFolds |->
        CASE shape = "flat"  -> 0
          [] shape = "last"  -> c - n
          [] OTHER -> IF c = 1 THEN (IF f = 1 THEN 0 ELSE 0 - 4)
                      ELSE IF c = 2 THEN 0 - 1 ELSE 0 - 2]]

RECURSIVE SumFolds(_, _)
SumFolds(row, f) == IF f = 0 THEN 0 ELSE row[f] + SumFolds(row, f - 1)

\* mean_test_score, times the number of folds.
TotalTestScore(split, c) == SumFolds(split[c], CvFolds)

\* best_index_: rank_test_score is computed on the mean test score and its
\* argmin is taken, so the first candidate of rank 1 wins.
BestIndex(split) ==
    CHOOSE c \in 1..Len(split) :
        /\ \A j \in 1..Len(split) : TotalTestScore(split, j) <= TotalTestScore(split, c)
        /\ \A j \in 1..(c - 1) : TotalTestScore(split, j) < TotalTestScore(split, c)

\* GridSearchCV(model, grid, cv=5, scoring=neg MSE).fit(X_train, y_train), refit.
GridSearchFit(model, grid, shape) ==
    LET split == SplitScores(shape, NumCandidates(grid))
        best  == Candidate(grid, BestIndex(split))
    IN  [estimator |-> model.name,
         param_grid |-> grid,
         cv |-> CvFolds,
         split_test_score |-> split,
         best_index_ |-> BestIndex(split),
         best_params_ |-> best,
         best_estimator_ |-> [cls |-> model.cls, name |-> model.name,
                              params |-> best, fitted |-> TRUE]]

\* ------------------------------------------------------------------- state
VARIABLES
    pc,                 \* the statement about to run
    y_test,             \* the held-out targets of train_test_split(random_state=42)
    it,                 \* position of "for name, model in models.items()"
    grid_search,        \* the GridSearchCV object of the current iteration
    best_models,        \* global dict name -> best estimator
    results,            \* global dict name -> {Best Params, MAE, RMSE}
    y_pred, mae, rmse,  \* locals of the loop body
    best_model_name,    \* the selected key
    voting_regressor, y_pred_voting, mae_voting, rmse_voting,
    stacking_regressor, y_pred_stacking, mae_stacking, rmse_stacking,
    error_at,           \* the statement an uncaught exception was raised in
    writes,             \* history: how often results[name] was assigned
    prev_run            \* the test predictions of an earlier run, if any

vars == << pc, y_test, it, grid_search, best_models, results, y_pred, mae, rmse,
           best_model_name, voting_regressor, y_pred_voting, mae_voting,
           rmse_voting, stacking_regressor, y_pred_stacking, mae_stacking,
           rmse_stacking, error_at, writes, prev_run >>

loopVars == << grid_search, y_pred, mae, rmse, it >>
votingVars == << voting_regressor, y_pred_voting, mae_voting, rmse_voting >>
stackingVars == << stacking_regressor, y_pred_stacking, mae_stacking, rmse_stacking >>
tableVars == << best_models, results, best_model_name, writes >>
envVars == << y_test, prev_run >>

None == "None"
Unfitted == [fitted |-> FALSE]
NoRun == [n \in AllNames |-> <<>>]

\* Test splits and prediction vectors.
TestSets == UNION {[1..n -> Values] : n \in 1..MaxTest}
PipelineSplits == {<<0>>}
Preds(yt) == [1..Len(yt) -> Values]

\* An estimator built without random_state draws from numpy's global generator,
\* which the notebook never seeds; XGBRegressor falls back to its fixed seed.
UsesGlobalRng(model) ==
    model.random_state = NoValue /\ model.cls # "XGBRegressor"

Reproducible(name) ==
    IF name \in BaseNames
    THEN \A i \in 1..Len(models) : models[i].name = name => ~UsesGlobalRng(models[i])
    ELSE \A i \in 1..Len(models) : ~UsesGlobalRng(models[i])

\* What predict(X_test) can return for the estimator registered under name:
\* anything, except that a reproducible fit repeats an earlier run's values.
PredictOutcomes(name) ==
    IF prev_run # NoRun /\ Reproducible(name) THEN {prev_run[name]} ELSE Preds(y_test)

TypeInit ==
    /\ it = 1
    /\ grid_search = Unfitted
    /\ best_models = <<>>
    /\ results = <<>>
    /\ y_pred = <<>> /\ mae = NoValue /\ rmse = NoValue
    /\ best_model_name = None
    /\ voting_regressor = Unfitted /\ y_pred_voting = <<>>
    /\ mae_voting = NoValue /\ rmse_voting = NoValue
    /\ stacking_regressor = Unfitted /\ y_pred_stacking = <<>>
    /\ mae_stacking = NoValue /\ rmse_stacking = NoValue
    /\ error_at = None
    /\ writes = [n \in AllNames |-> 0]

\* The state after the cell "best_models = {}; results = {}".
Init ==
    /\ pc = "search"
    /\ y_test \in PipelineSplits
    /\ prev_run = NoRun
    /\ TypeInit

\* ----------------------------------------------------------------- actions
SearchWrongGrid ==
    /\ pc = "search"
    /\ \E shape \in CvShapes :
          grid_search' = GridSearchFit(models[it], param_grids[models[1].name], shape)
    /\ pc' = "store_best"
    /\ UNCHANGED << y_pred, mae, rmse, it, error_at >>
    /\ UNCHANGED << tableVars, votingVars, stackingVars, envVars >>
\* grid_search = GridSearchCV(model, param_grids[name], cv=5, ...); grid_search.fit(...)
Search ==
    /\ pc = "search"
    /\ \E shape \in CvShapes :
          grid_search' = GridSearchFit(models[it], param_grids[models[it].name], shape)
    /\ pc' = "store_best"
    /\ UNCHANGED << y_pred, mae, rmse, it, error_at >>
    /\ UNCHANGED << tableVars, votingVars, stackingVars, envVars >>

StoreBestAndRecord ==
    /\ pc = "store_best"
    /\ best_models' = Put(best_models,
                          [name |-> models[it].name, est |-> grid_search.best_estimator_])
    /\ results' = Put(results, [name |-> models[it].name,
                                BestParams |-> grid_search.best_params_,
                                MAE |-> mae, RMSE |-> rmse])
    /\ pc' = "predict"
    /\ UNCHANGED << loopVars, best_model_name, writes, error_at >>
    /\ UNCHANGED << votingVars, stackingVars, envVars >>
\* best_models[name] = grid_search.best_estimator_
StoreBest ==
    /\ pc = "store_best"
    /\ best_models' = Put(best_models,
                          [name |-> models[it].name, est |-> grid_search.best_estimator_])
    /\ pc' = "predict"
    /\ UNCHANGED << loopVars, results, best_model_name, writes, error_at >>
    /\ UNCHANGED << votingVars, stackingVars, envVars >>

\* y_pred = grid_search.best_estimator_.predict(X_test)
Predict ==
    /\ pc = "predict"
    /\ y_pred' \in PredictOutcomes(grid_search.best_estimator_.name)
    /\ pc' = "mae"
    /\ UNCHANGED << grid_search, mae, rmse, it, error_at >>
    /\ UNCHANGED << tableVars, votingVars, stackingVars, envVars >>

\* mae = mean_absolute_error(y_test, y_pred)
ComputeMae ==
    /\ pc = "mae"
    /\ mae' = MeanAbsoluteError(y_test, y_pred)
    /\ pc' = "rmse"
    /\ UNCHANGED << grid_search, y_pred, rmse, it, error_at >>
    /\ UNCHANGED << tableVars, votingVars, stackingVars, envVars >>

\* rmse = np.sqrt(mean_squared_error(y_test, y_pred))
ComputeRmse ==
    /\ pc = "rmse"
    /\ rmse' = Rmse(y_test, y_pred)
    /\ pc' = "record"
    /\ UNCHANGED << grid_search, y_pred, mae, it, error_at >>
    /\ UNCHANGED << tableVars, votingVars, stackingVars, envVars >>

\* results[name] = {'Best Params': ..., 'MAE': mae, 'RMSE': rmse}; next iteration.
Record ==
    /\ pc = "record"
    /\ results' = Put(results, [name |-> models[it].name,
                                BestParams |-> grid_search.best_params_,
                                MAE |-> mae, RMSE |-> rmse])
    /\ writes' = [writes EXCEPT ![models[it].name] = @ + 1]
    /\ IF it < Len(models)
       THEN it' = it + 1 /\ pc' = "search"
       ELSE it' = it /\ pc' = "select_base"
    /\ UNCHANGED << grid_search, y_pred, mae, rmse, best_models, best_model_name, error_at >>
    /\ UNCHANGED << votingVars, stackingVars, envVars >>

\* The order of the five keys as Python compares the strings.
AlphaRank(name) ==
    CASE name = DT -> 1 [] name = RF -> 2 [] name = STACKING -> 3
      [] name = VOTING -> 4 [] OTHER -> 5

\* min(results, key=lambda x: results[x]['RMSE']): the keys are visited in
\* insertion order and a later key replaces the kept one only when its RMSE
\* is strictly smaller.
RECURSIVE MinByRmseFrom(_, _, _)
MinByRmseFrom(d, i, kept) ==
    IF i > Len(d) THEN kept
    ELSE MinByRmseFrom(d, i + 1, IF d[i].RMSE < d[kept].RMSE THEN i ELSE kept)

MinKeyLastWins(d) ==
    d[CHOOSE i \in 1..Len(d) :
        /\ \A j \in 1..Len(d) : d[i].RMSE <= d[j].RMSE
        /\ \A j \in (i + 1)..Len(d) : d[i].RMSE < d[j].RMSE].name
MinKeyThenName(d) ==
    d[CHOOSE i \in 1..Len(d) :
        \A j \in 1..Len(d) :
            \/ d[i].RMSE < d[j].RMSE
            \/ d[i].RMSE = d[j].RMSE /\ AlphaRank(d[i].name) <= AlphaRank(d[j].name)].name
MinKeyNoKey(d) ==
    d[CHOOSE i \in 1..Len(d) : \A j \in 1..Len(d) : AlphaRank(d[i].name) <= AlphaRank(d[j].name)].name
MinKey(d) == d[MinByRmseFrom(d, 2, 1)].name

\* The print loop and "best_model_name = min(results, ...)" after the search loop.
SelectBase ==
    /\ pc = "select_base"
    /\ best_model_name' = MinKey(results)
    /\ pc' = "build_voting"
    /\ UNCHANGED << loopVars, best_models, results, writes, error_at >>
    /\ UNCHANGED << votingVars, stackingVars, envVars >>

BaseEstimators(registry) ==
    << Get(registry, DT).est, Get(registry, RF).est, Get(registry, XGB).est >>

\* best_decision_tree = best_models['Decision Tree'] ...;
\* voting_regressor = VotingRegressor(estimators=[dt, rf, xgb])
BuildVoting ==
    /\ pc = "build_voting"
    /\ voting_regressor' = [fitted |-> FALSE, estimators |-> BaseEstimators(best_models)]
    /\ pc' = "voting_fit"
    /\ UNCHANGED << y_pred_voting, mae_voting, rmse_voting, error_at >>
    /\ UNCHANGED << loopVars, tableVars, stackingVars, envVars >>

\* voting_regressor.fit(X_train, y_train): refits clones of the three estimators.
VotingFit ==
    /\ pc = "voting_fit"
    /\ voting_regressor' = [voting_regressor EXCEPT !.fitted = TRUE]
    /\ pc' = "voting_predict"
    /\ UNCHANGED << y_pred_voting, mae_voting, rmse_voting, error_at >>
    /\ UNCHANGED << loopVars, tableVars, stackingVars, envVars >>

\* y_pred_voting = voting_regressor.predict(X_test)
VotingPredict ==
    /\ pc = "voting_predict"
    /\ y_pred_voting' \in PredictOutcomes(VOTING)
    /\ pc' = "voting_mae"
    /\ UNCHANGED << voting_regressor, mae_voting, rmse_voting, error_at >>
    /\ UNCHANGED << loopVars, tableVars, stackingVars, envVars >>

\* mae_voting = mean_absolute_error(y_test, y_pred_voting)
VotingMae ==
    /\ pc = "voting_mae"
    /\ mae_voting' = MeanAbsoluteError(y_test, y_pred_voting)
    /\ pc' = "voting_rmse"
    /\ UNCHANGED << voting_regressor, y_pred_voting, rmse_voting, error_at >>
    /\ UNCHANGED << loopVars, tableVars, stackingVars, envVars >>

\* rmse_voting = np.sqrt(mean_squared_error(y_test, y_pred_voting))
VotingRmse ==
    /\ pc = "voting_rmse"
    /\ rmse_voting' = Rmse(y_test, y_pred_voting)
    /\ pc' = "build_stacking"
    /\ UNCHANGED << voting_regressor, y_pred_voting, mae_voting, error_at >>
    /\ UNCHANGED << loopVars, tableVars, stackingVars, envVars >>

\* stacking_regressor = StackingRegressor(estimators=base_models,
\*                                        final_estimator=LinearRegression(), cv=5)
BuildStacking ==
    /\ pc = "build_stacking"
    /\ stacking_regressor' = [fitted |-> FALSE,
                              estimators |-> voting_regressor.estimators,
                              final_estimator |-> "LinearRegression",
                              cv |-> CvFolds]
    /\ pc' = "stacking_fit"
    /\ UNCHANGED << y_pred_stacking, mae_stacking, rmse_stacking, error_at >>
    /\ UNCHANGED << loopVars, tableVars, votingVars, envVars >>

\* stacking_regressor.fit(X_train, y_train)
StackingFit ==
    /\ pc = "stacking_fit"
    /\ stacking_regressor' = [stacking_regressor EXCEPT !.fitted = TRUE]
    /\ pc' = "stacking_predict"
    /\ UNCHANGED << y_pred_stacking, mae_stacking, rmse_stacking, error_at >>
    /\ UNCHANGED << loopVars, tableVars, votingVars, envVars >>

\* y_pred_stacking = stacking_regressor.predict(X_test)
StackingPredict ==
    /\ pc = "stacking_predict"
    /\ y_pred_stacking' \in PredictOutcomes(STACKING)
    /\ pc' = "stacking_mae"
    /\ UNCHANGED << stacking_regressor, mae_stacking, rmse_stacking, error_at >>
    /\ UNCHANGED << loopVars, tableVars, votingVars, envVars >>

\* mae_stacking = mean_absolute_error(y_test, y_pred_stacking)
StackingMae ==
    /\ pc = "stacking_mae"
    /\ mae_stacking' = MeanAbsoluteError(y_test, y_pred_stacking)
    /\ pc' = "stacking_rmse"
    /\ UNCHANGED << stacking_regressor, y_pred_stacking, rmse_stacking, error_at >>
    /\ UNCHANGED << loopVars, tableVars, votingVars, envVars >>

\* rmse_stacking = np.sqrt(mean_squared_error(y_test, y_pred_stacking))
StackingRmse ==
    /\ pc = "stacking_rmse"
    /\ rmse_stacking' = Rmse(y_test, y_pred_stacking)
    /\ pc' = "record_voting"
    /\ UNCHANGED << stacking_regressor, y_pred_stacking, mae_stacking, error_at >>
    /\ UNCHANGED << loopVars, tableVars, votingVars, envVars >>

\* results['Voting Regressor'] = {'Best Params': 'N/A', 'MAE': mae_voting, 'RMSE': rmse_voting}
RecordVoting ==
    /\ pc = "record_voting"
    /\ results' = Put(results, [name |-> VOTING, BestParams |-> "N/A",
                                MAE |-> mae_voting, RMSE |-> rmse_voting])
    /\ writes' = [writes EXCEPT ![VOTING] = @ + 1]
    /\ pc' = "record_stacking"
    /\ UNCHANGED << best_models, best_model_name, error_at >>
    /\ UNCHANGED << loopVars, votingVars, stackingVars, envVars >>

RecordStackingCopyPaste ==
    /\ pc = "record_stacking"
    /\ results' = Put(results, [name |-> STACKING, BestParams |-> "N/A",
                                MAE |-> mae_voting, RMSE |-> rmse_voting])
    /\ writes' = [writes EXCEPT ![STACKING] = @ + 1]
    /\ pc' = "select_final"
    /\ UNCHANGED << best_models, best_model_name, error_at >>
    /\ UNCHANGED << loopVars, votingVars, stackingVars, envVars >>
\* results['Stacking Regressor'] = {..., 'MAE': mae_stacking, 'RMSE': rmse_stacking}
RecordStacking ==
    /\ pc = "record_stacking"
    /\ results' = Put(results, [name |-> STACKING, BestParams |-> "N/A",
                                MAE |-> mae_stacking, RMSE |-> rmse_stacking])
    /\ writes' = [writes EXCEPT ![STACKING] = @ + 1]
    /\ pc' = "select_final"
    /\ UNCHANGED << best_models, best_model_name, error_at >>
    /\ UNCHANGED << loopVars, votingVars, stackingVars, envVars >>

\* The print loop and "best_model_name = min(results, ...)" of the last cell.
SelectFinal ==
    /\ pc = "select_final"
    /\ best_model_name' = MinKey(results)
    /\ pc' = "done"
    /\ UNCHANGED << loopVars, best_models, results, writes, error_at >>
    /\ UNCHANGED << votingVars, stackingVars, envVars >>

\* The statements that call into the library and can raise.
LibraryCalls ==
    {"search", "predict", "mae", "rmse",
     "voting_fit", "voting_predict", "voting_mae", "voting_rmse",
     "stacking_fit", "stacking_predict", "stacking_mae", "stacking_rmse"}

\* An exception of the library: no statement catches it, the run stops there
\* and the globals stay as the statements before it left them.
RaiseRollback ==
    /\ pc \in LibraryCalls
    /\ error_at' = pc
    /\ pc' = "aborted"
    /\ best_models' = <<>> /\ results' = <<>> /\ best_model_name' = None
    /\ UNCHANGED << writes, loopVars, votingVars, stackingVars, envVars >>
Raise ==
    /\ pc \in LibraryCalls
    /\ error_at' = pc
    /\ pc' = "aborted"
    /\ UNCHANGED << tableVars, loopVars, votingVars, stackingVars, envVars >>

Next ==
    \/ Search \/ StoreBest \/ Predict \/ ComputeMae \/ ComputeRmse \/ Record
    \/ SelectBase
    \/ BuildVoting \/ VotingFit \/ VotingPredict \/ VotingMae \/ VotingRmse
    \/ BuildStacking \/ StackingFit \/ StackingPredict \/ StackingMae \/ StackingRmse
    \/ RecordVoting \/ RecordStacking \/ SelectFinal
    \/ Raise

Spec == Init /\ [][Next]_vars

\* The two metric functions on their own, over every test split and every
\* prediction vector within the bounds.
InitEval ==
    /\ pc = "mae"
    /\ y_test \in TestSets
    /\ prev_run = NoRun
    /\ \E p \in Preds(y_test) :
          /\ it = 1 /\ grid_search = Unfitted /\ best_models = <<>> /\ results = <<>>
          /\ y_pred = p /\ mae = NoValue /\ rmse = NoValue
          /\ best_model_name = None
          /\ voting_regressor = Unfitted /\ y_pred_voting = <<>>
          /\ mae_voting = NoValue /\ rmse_voting = NoValue
          /\ stacking_regressor = Unfitted /\ y_pred_stacking = <<>>
          /\ mae_stacking = NoValue /\ rmse_stacking = NoValue
          /\ error_at = None
          /\ writes = [n \in AllNames |-> 0]

NextEval == ComputeMae \/ ComputeRmse

SpecEval == InitEval /\ [][NextEval]_vars

\* A second run on the same dataset and the same split seed, next to the test
\* predictions an earlier run obtained.
InitRepro ==
    /\ pc = "search"
    /\ y_test \in PipelineSplits
    /\ prev_run \in {[n \in AllNames |-> p] : p \in Preds(y_test)}
    /\ TypeInit

SpecRepro == InitRepro /\ [][Next]_vars

\* ------------------------------------------------------------- properties
RmseOf(name) == Get(results, name).RMSE
MaeOf(name) == Get(results, name).MAE

BaseKeys == [i \in 1..Len(models) |-> models[i].name]
FinalKeys == BaseKeys \o <<VOTING, STACKING>>

\* From the first selection until the ensembles are appended the table holds
\* the three base entries and best_model_name is the first selection.
AfterBaseSelection ==
    pc \in {"build_voting", "voting_fit", "voting_predict", "voting_mae",
            "voting_rmse", "build_stacking", "stacking_fit", "stacking_predict",
            "stacking_mae", "stacking_rmse", "record_voting"}

SelectionStands == AfterBaseSelection \/ pc = "done"

\* C1: each selection returns a key of the results table whose RMSE is the
\* minimum over the entries then in the table: the three base entries at the
\* first selection, all five entries at the end of the run.
SelectionIsMinimal ==
    /\ AfterBaseSelection => Keys(results) = BaseKeys
    /\ pc = "done" => Keys(results) = FinalKeys
    /\ SelectionStands =>
          /\ HasKey(results, best_model_name)
          /\ \A i \in 1..Len(results) : RmseOf(best_model_name) <= results[i].RMSE

SelectedAnEnsemble ==
    /\ pc = "done"
    /\ best_model_name = STACKING
    /\ \A n \in BaseNames \cup {VOTING} : RmseOf(STACKING) < RmseOf(n)

\* C2: among entries of equal minimal RMSE the selection returns the one
\* inserted first: every entry inserted before the selected one has a
\* strictly larger RMSE, so a base model wins an exact tie with an ensemble.
TieGoesToFirstInserted ==
    SelectionStands =>
        \A i \in 1..Len(results) :
            i < IndexOf(results, best_model_name) =>
                results[i].RMSE > RmseOf(best_model_name)

BaseWinsTieWithEnsemble ==
    /\ pc = "done"
    /\ best_model_name \in BaseNames
    /\ \E e \in EnsembleNames : RmseOf(e) = RmseOf(best_model_name)

\* Every operation of the two metric computations is exact: no difference,
\* square, partial sum, mean or root is rounded or underflows.
RECURSIVE IntSum(_, _)
IntSum(v, n) == IF n = 0 THEN 0 ELSE IntSum(v, n - 1) + v[n]

ExactSum(v) == \A n \in 1..Len(v) : FlSum(v, n) = IntSum(v, n)

ExactEvaluation(yt, yp) ==
    /\ \A i \in 1..Len(yt) : FlExact(Abs(yp[i] - yt[i]), 1)
    /\ \A i \in 1..Len(yt) :
          FlExact(AbsErrors(yt, yp)[i] * AbsErrors(yt, yp)[i], 2^FracBits)
    /\ ExactSum(AbsErrors(yt, yp))
    /\ ExactSum(SqErrors(yt, yp))
    /\ FlExact(FlSum(AbsErrors(yt, yp), Len(yt)), Len(yt))
    /\ FlExact(FlSum(SqErrors(yt, yp), Len(yt)), Len(yt))
    /\ FlSqrtExact(MeanSquaredError(yt, yp))

\* C3 (as claimed): every pair of metrics computed from the same predictions
\* and targets satisfies 0 <= MAE <= RMSE.
MaeBelowRmse ==
    pc = "record" => 0 <= mae /\ mae <= rmse

\* C3 (amended): both metrics are non-negative, and MAE <= RMSE whenever no
\* operation of the two computations rounds or underflows.
MaeBelowRmseWhenExact ==
    pc = "record" =>
        /\ 0 <= mae
        /\ 0 <= rmse
        /\ ExactEvaluation(y_test, y_pred) => mae <= rmse

ExactNonZeroMetrics ==
    /\ pc = "record"
    /\ Len(y_test) >= 2
    /\ ExactEvaluation(y_test, y_pred)
    /\ 0 < mae

\* A step keeps every recorded entry in place and unchanged.
EntriesKept ==
    \A i \in 1..Len(results) :
        /\ i <= Len(results')
        /\ results'[i].name = results[i].name
        /\ results'[i].MAE = results[i].MAE
        /\ results'[i].RMSE = results[i].RMSE
        /\ results'[i].BestParams = results[i].BestParams

\* C4: the results table starts empty and is append-only: a step never
\* removes an entry nor changes the name, MAE, RMSE or Best Params of an
\* entry already recorded, and a completed run has assigned each of the five
\* names exactly once.
ResultsAppendOnly ==
    /\ results = <<>>
    /\ [][EntriesKept]_vars
    /\ [](pc = "done" => Keys(results) = FinalKeys /\ \A n \in AllNames : writes[n] = 1)

AllFiveRecordedOnce ==
    /\ pc = "done"
    /\ Len(results) = 5
    /\ \A n \in AllNames : writes[n] = 1

LoopCalls == {"search", "predict", "mae", "rmse"}

\* C5 (as claimed): after an abort no results entry, no registry entry and no
\* selected identifier of the aborted run is left.
NothingLeftAfterAbort ==
    pc = "aborted" =>
        results = <<>> /\ best_models = <<>> /\ best_model_name = None

\* C5 (amended): an error stops the run where it is raised: no statement runs
\* after it, and the globals hold exactly what the completed statements left:
\* the entries of the iterations finished before the error (and the registry
\* entry of the failing iteration once stored), with the first selection if
\* the error is raised in an ensemble stage.
AbortKeepsCompletedStages ==
    pc = "aborted" =>
        /\ ~ENABLED Next
        /\ error_at \in LoopCalls =>
              /\ Keys(results) = SubSeq(BaseKeys, 1, it - 1)
              /\ Keys(best_models) =
                    SubSeq(BaseKeys, 1, IF error_at = "search" THEN it - 1 ELSE it)
              /\ best_model_name = None
        /\ error_at \notin LoopCalls =>
              /\ Keys(results) = BaseKeys
              /\ Keys(best_models) = BaseKeys
              /\ best_model_name = MinKey(results)
        /\ \A n \in AllNames : writes[n] = IF HasKey(results, n) THEN 1 ELSE 0

AbortedWithPartialResults ==
    /\ pc = "aborted"
    /\ error_at = "predict"
    /\ Len(results) = 2
    /\ Len(best_models) = 3

\* The results table of the earlier run.
PrevResults ==
    [i \in 1..Len(FinalKeys) |->
        [name |-> FinalKeys[i],
         MAE |-> MeanAbsoluteError(y_test, prev_run[FinalKeys[i]]),
         RMSE |-> Rmse(y_test, prev_run[FinalKeys[i]])]]

\* C6: a run on the same dataset with the same split seed records the MAE and
\* RMSE of the earlier run for each of the five entries and selects the same
\* model.
RunsAgree ==
    pc = "done" =>
        /\ \A i \in 1..Len(FinalKeys) :
              /\ MaeOf(FinalKeys[i]) = PrevResults[i].MAE
              /\ RmseOf(FinalKeys[i]) = PrevResults[i].RMSE
        /\ best_model_name = MinKey(PrevResults)

MaxBaseRmse == CHOOSE m \in {RmseOf(n) : n \in BaseNames} : \A n \in BaseNames : RmseOf(n) <= m

\* C7 (as claimed): the RMSE recorded for each ensemble is at most the largest
\* RMSE recorded among the three base models.
EnsemblesNoWorseThanWorstBase ==
    pc = "done" => \A e \in EnsembleNames : RmseOf(e) <= MaxBaseRmse

\* C7 (amended): each ensemble is fitted and then scored on the same test
\* split with the same two formulas as the base models, and its entry holds
\* those two values; no bound by the base models' RMSE is implied.
EnsemblesScoredOnSameSplit ==
    pc = "done" =>
        /\ voting_regressor.fitted /\ stacking_regressor.fitted
        /\ Len(y_pred_voting) = Len(y_test) /\ Len(y_pred_stacking) = Len(y_test)
        /\ MaeOf(VOTING) = MeanAbsoluteError(y_test, y_pred_voting)
        /\ RmseOf(VOTING) = Rmse(y_test, y_pred_voting)
        /\ MaeOf(STACKING) = MeanAbsoluteError(y_test, y_pred_stacking)
        /\ RmseOf(STACKING) = Rmse(y_test, y_pred_stacking)

EnsembleWorseThanEveryBase ==
    /\ pc = "done"
    /\ RmseOf(VOTING) > MaxBaseRmse
    /\ RmseOf(STACKING) > MaxBaseRmse

LoopSteps == {"search", "store_best", "predict", "mae", "rmse", "record"}

RegistryEntries == {best_models[i].est : i \in 1..Len(best_models)}

\* An entry is merged only after its own stage has run to the end.
MergedAfterOwnStage ==
    /\ pc \in LoopSteps =>
          /\ ~HasKey(results, models[it].name)
          /\ Keys(results) = SubSeq(BaseKeys, 1, it - 1)
    /\ pc = "record" =>
          /\ grid_search.best_estimator_.fitted
          /\ grid_search.estimator = models[it].name
          /\ Len(y_pred) = Len(y_test)
          /\ mae = MeanAbsoluteError(y_test, y_pred)
          /\ rmse = Rmse(y_test, y_pred)
    /\ AfterBaseSelection => ~HasKey(results, VOTING) /\ ~HasKey(results, STACKING)
    /\ pc = "record_stacking" => ~HasKey(results, STACKING)
    /\ pc \in {"record_voting", "record_stacking"} =>
          /\ voting_regressor.fitted /\ stacking_regressor.fitted
          /\ mae_voting = MeanAbsoluteError(y_test, y_pred_voting)
          /\ rmse_voting = Rmse(y_test, y_pred_voting)
          /\ mae_stacking = MeanAbsoluteError(y_test, y_pred_stacking)
          /\ rmse_stacking = Rmse(y_test, y_pred_stacking)

\* A step leaves every entry of both tables as it was, and adds at most the
\* entry of the stage that is running.
OthersUntouched ==
    /\ \A i \in 1..Len(results) :
          i <= Len(results') /\ results'[i].name = results[i].name
          /\ results'[i] = results[i]
    /\ \A i \in 1..Len(best_models) :
          i <= Len(best_models') /\ best_models'[i] = best_models[i]
    /\ Len(results') <= Len(results) + 1
    /\ Len(best_models') <= Len(best_models) + 1
    /\ Len(results') > Len(results) =>
          results'[Len(results')].name =
              IF pc \in LoopSteps THEN models[it].name
              ELSE IF pc = "record_voting" THEN VOTING ELSE STACKING
    /\ Len(best_models') > Len(best_models) =>
          pc \in LoopSteps /\ best_models'[Len(best_models')].name = models[it].name

EnsembleBuilt(ens) == "estimators" \in DOMAIN ens

\* C8 (as claimed): entries are merged after their own stage, no stage changes
\* another model's entries, and no stage reads another model's registry
\* entry: the object a stage builds holds none of them.
StagesIndependent ==
    /\ MergedAfterOwnStage
    /\ EnsembleBuilt(voting_regressor) =>
          \A i \in 1..Len(voting_regressor.estimators) :
              voting_regressor.estimators[i] \notin RegistryEntries
    /\ EnsembleBuilt(stacking_regressor) =>
          \A i \in 1..Len(stacking_regressor.estimators) :
              stacking_regressor.estimators[i] \notin RegistryEntries

\* C8 (amended): entries are merged after their own stage and no stage changes
\* an entry of another model in either table; the three base stages use no
\* entry of another model, while the two ensembles are built from the three
\* base models' registry entries, which they read and leave unchanged.
StagesMergeInOrder ==
    /\ [](MergedAfterOwnStage)
    /\ [][OthersUntouched]_vars
    /\ [](EnsembleBuilt(voting_regressor) =>
             voting_regressor.estimators = BaseEstimators(best_models))
    /\ [](EnsembleBuilt(stacking_regressor) =>
             stacking_regressor.estimators = BaseEstimators(best_models))
    /\ [](pc \in LoopSteps /\ grid_search # Unfitted =>
             /\ grid_search.estimator \in {models[j].name : j \in 1..it}
             /\ grid_search.param_grid = param_grids[grid_search.estimator])

EnsemblesBuiltFromRegistry ==
    /\ pc = "done"
    /\ voting_regressor.estimators = BaseEstimators(best_models)
    /\ stacking_regressor.estimators = BaseEstimators(best_models)
    /\ Keys(results) = FinalKeys

SearchDone == pc \in {"store_best", "predict", "mae", "rmse", "record"}

\* C9: the search of a model evaluates every combination of that model's own
\* grid on the 5 folds and keeps one whose mean score no other exceeds; the
\* estimator stored in best_models[name] and the Best Params stored in
\* results[name] are that combination of that grid.
BestParamsAreGridWinner ==
    /\ SearchDone =>
          LET grid == param_grids[models[it].name] IN
          /\ grid_search.estimator = models[it].name
          /\ grid_search.param_grid = grid
          /\ grid_search.cv = 5
          /\ Len(grid_search.split_test_score) = NumCandidates(grid)
          /\ \A c \in 1..NumCandidates(grid) :
                /\ Len(grid_search.split_test_score[c]) = 5
                /\ TotalTestScore(grid_search.split_test_score, c)
                      <= TotalTestScore(grid_search.split_test_score, grid_search.best_index_)
          /\ grid_search.best_params_ = Candidate(grid, grid_search.best_index_)
          /\ grid_search.best_estimator_.params = grid_search.best_params_
    /\ \A i \in 1..Len(best_models) :
          /\ best_models[i].est.name = best_models[i].name
          /\ best_models[i].est.fitted
          /\ IsCandidate(param_grids[best_models[i].name], best_models[i].est.params)
          /\ (SearchDone /\ i = it) => best_models[i].est = grid_search.best_estimator_
    /\ \A i \in 1..Len(results) :
          results[i].name \in BaseNames =>
              /\ HasKey(best_models, results[i].name)
              /\ results[i].BestParams = Get(best_models, results[i].name).est.params
    /\ (pc \notin LoopSteps /\ pc # "aborted") =>
          /\ grid_search.best_params_ = Get(results, XGB).BestParams
          /\ grid_search.best_estimator_ = Get(best_models, XGB).est

LastCombinationWins ==
    /\ pc = "done"
    /\ Get(results, XGB).BestParams =
          [learning_rate |-> 10, max_depth |-> 7, n_estimators |-> 500]
    /\ Get(results, DT).BestParams = [max_depth |-> 5, min_samples_split |-> 5]
    /\ Get(best_models, RF).est.params = [max_depth |-> 5, n_estimators |-> 100]

\* The step of the last cell that selects again.
FinalSelectionStep ==
    (pc = "select_final" /\ pc' = "done") =>
        /\ Get(results', best_model_name').RMSE <= RmseOf(best_model_name)
        /\ best_model_name' # best_model_name =>
              \E e \in EnsembleNames : \A b \in BaseNames : RmseOf(e) < RmseOf(b)

\* C10: the final selection's RMSE is at most the first selection's, and the
\* final selection differs from the first only if some ensemble entry has a
\* strictly smaller RMSE than every base entry.
FinalSelectionNoWorse == [][FinalSelectionStep]_vars

FinalSelectionChanged ==
    /\ pc = "done"
    /\ best_model_name = VOTING
    /\ RmseOf(VOTING) = RmseOf(STACKING)
====
